---- MODULE Spec2Model ----
(***************************************************************************)
(* ocelli: entropy extraction from camera sensor noise.                    *)
(*                                                                         *)
(* The module models the extraction primitives of src/src/core.rs and      *)
(* src/src/lib.rs (chop_and_tack, pick_and_flip, whiten, shannon,          *)
(* is_covered, bits_to_bytes), the extern "C" wrappers of src/src/lib.rs   *)
(* and the accumulation loop of src/src/bin/main.rs.                       *)
(*                                                                         *)
(* A pixel buffer is kept sparsely, as a length and a rule giving the      *)
(* pixel at every index (Pixel): the geometry checks of chop_and_tack      *)
(* need buffers of more than 200 x 200 pixels.                             *)
(*                                                                         *)
(* Rust integer arithmetic is modelled with its two build behaviours:      *)
(* with overflow checks (debug) an overflowing operation panics, without   *)
(* them (release) it wraps.  The variable build holds the choice.          *)
(***************************************************************************)
EXTENDS Integers, Sequences, FiniteSets, TLC

VARIABLES
    build,      \* "debug" (overflow checks on) or "release" (wrapping)
    call,       \* the last call of a primitive: its arguments and outcome
    pc,         \* position of main in src/src/bin/main.rs
    quick,      \* the -q flag
    length,     \* the requested number of bytes
    width,      \* format.width handed to chop_and_tack
    total_entropy,  \* the pool
    frame_count,
    entropy,    \* the chunk of the current round
    data1,      \* the first frame of the round (grayscale)
    requests,   \* number of stream.next() calls made so far
    hist        \* history of the run (observations used by the properties)

vars == <<build, call, pc, quick, length, width, total_entropy, frame_count,
          entropy, data1, requests, hist>>

(***************************************************************************)
(* Bounds of the model.                                                    *)
(***************************************************************************)
PatLen == 3         \* period of the periodic test buffers
MaxWhitenLen == 3   \* longest explicit byte buffer handed to whiten
MaxRequests == 65   \* frames the model lets main request from the camera

(***************************************************************************)
(* Program constants.                                                      *)
(***************************************************************************)
Border == 100       \* start_row, and the column margin
MinSide == 200      \* width and height must exceed this
ByteBits == 8       \* bits_to_bytes packs chunks of 8
Warmup == 30        \* if frame_count <= 30
CoverThreshold == 50    \* is_covered(&grayscale_data1, 50)
shannon_threshold == 79 \* 7.9, in tenths of a bit

Builds == {"debug", "release"}

Min(a, b) == IF a < b THEN a ELSE b

Pow2(k) == CASE k = 0 -> 1 [] k = 1 -> 2 [] k = 2 -> 4 [] k = 3 -> 8
             [] k = 4 -> 16 [] k = 5 -> 32 [] k = 6 -> 64 [] k = 7 -> 128
             [] OTHER -> 256

\* bit number k (7 = most significant) of byte b: (b >> k) & 1
BitOf(b, k) == (b \div Pow2(k)) % 2

(***************************************************************************)
(* Pixel buffers.  kind "periodic": the pixel at index i is                *)
(* pat[(i % Len(pat)) + 1].  kind "grid": a frame of true width gw whose   *)
(* pixels at the positions chop_and_tack samples with stride 30 spell the  *)
(* bytes 0, 1, 2, ... (128 + bit), all other pixels 128.  kind "lsb":      *)
(* pixels 2j and 2j+1 carry in their least significant bits the pair       *)
(* (b, 1 - b) for bit b of the same byte sequence.  kind "gradient": the   *)
(* pixel at index i is i % 256.                                            *)
(***************************************************************************)
CounterBit(j) == BitOf((j \div 8) % 256, 7 - (j % 8))

GridStride == 30

GridPixel(gw, i) ==
    LET row == i \div gw
        col == i % gw
        spr == (gw - 2 * Border + GridStride - 1) \div GridStride
    IN IF row >= Border /\ col >= Border /\ col < gw - Border
          /\ (col - Border) % GridStride = 0
       THEN 128 + CounterBit((row - Border) * spr + (col - Border) \div GridStride)
       ELSE 128

Pixel(buf, i) ==
    CASE buf.kind = "periodic" -> buf.pat[(i % Len(buf.pat)) + 1]
      [] buf.kind = "grid" -> GridPixel(buf.gw, i)
      [] buf.kind = "gradient" -> i % 256
      [] OTHER -> 128 + (IF i % 2 = 0 THEN CounterBit(i \div 2)
                                      ELSE 1 - CounterBit(i \div 2))

Periodic(n, p) == [len |-> n, kind |-> "periodic", pat |-> p, gw |-> 0]

(***************************************************************************)
(* bits_to_bytes: chunks of 8 bits, most significant first; a last chunk   *)
(* of fewer than 8 bits is dropped.                                        *)
(***************************************************************************)
FoldByte(bits, k) ==
    LET b(j) == bits[ByteBits * (k - 1) + j]
    IN 128 * b(1) + 64 * b(2) + 32 * b(3) + 16 * b(4)
       + 8 * b(5) + 4 * b(6) + 2 * b(7) + b(8)

bits_to_bytes(bits) == [k \in 1..(Len(bits) \div ByteBits) |-> FoldByte(bits, k)]

(***************************************************************************)
(* Outcomes of a call.                                                     *)
(***************************************************************************)
Ok(bytes) == [kind |-> "ok", bytes |-> bytes]
None == [kind |-> "none", bytes |-> <<>>]
Panic == [kind |-> "panic", bytes |-> <<>>]
Hang == [kind |-> "hang", bytes |-> <<>>]

(***************************************************************************)
(* The indices chop_and_tack visits: rows start_row..end_row-1, in each    *)
(* row row*width+100, +stride, ... below (row+1)*width-100, in order.      *)
(***************************************************************************)
PerRow(w, stride) == (w - 2 * Border + stride - 1) \div stride

GridIndices(w, stride, end_row) ==
    LET spr == PerRow(w, stride)
        rows == end_row - Border
    IN [j \in 1..(rows * spr) |->
          (Border + (j - 1) \div spr) * w + Border + ((j - 1) % spr) * stride]

\* (c > p) as u8 - (c < p) as u8, in u8 arithmetic without overflow checks
DiffBit(c, p) == ((IF c > p THEN 1 ELSE 0) - (IF c < p THEN 1 ELSE 0)) % 256

IsBit(v) == v <= 1

chop_grid(b, current, previous, idxs) ==
    LET vals == [j \in 1..Len(idxs) |->
                    DiffBit(Pixel(current, idxs[j]), Pixel(previous, idxs[j]))]
    IN IF b = "debug" /\ \E j \in 1..Len(idxs) :
                            Pixel(current, idxs[j]) < Pixel(previous, idxs[j])
       THEN Panic      \* attempt to subtract with overflow
       ELSE Ok(bits_to_bytes(SelectSeq(vals, IsBit)))

\* src/src/core.rs
chop_and_tack(b, current, previous, w, minimum_distance) ==
    IF w = 0 THEN Panic     \* current.len() / width: division by zero
    ELSE
    LET height == current.len \div w
        InCurrent(i) == i < current.len
    IN IF w <= MinSide \/ height <= MinSide \/ current.len # previous.len
       THEN None
       ELSE IF minimum_distance = 0 THEN Panic       \* step_by(0)
       ELSE chop_grid(b, current, previous,
                SelectSeq(GridIndices(w, minimum_distance, height - Border),
                          InCurrent))

\* src/src/lib.rs
lib_chop_and_tack(b, current, previous, w, minimum_distance) ==
    IF w = 0 THEN Panic     \* current.len() / width: division by zero
    ELSE
    LET height == current.len \div w
        InBoth(i) == i < current.len /\ i < previous.len
    IN IF height < Border /\ b = "debug" THEN Panic   \* height - 100 overflows
       ELSE IF (height >= Border /\ Border >= height - Border) \/ w <= MinSide
       THEN Panic          \* panic!("Resolution is too small ...")
       ELSE IF minimum_distance = 0 THEN Panic       \* step_by(0)
       ELSE IF height < Border
       THEN Hang           \* end_row wrapped to 2^64 - (100 - height)
       ELSE chop_grid(b, current, previous,
                SelectSeq(GridIndices(w, minimum_distance, height - Border),
                          InBoth))

(***************************************************************************)
(* pick_and_flip: the least significant bit of every pixel in low..=high,  *)
(* flipped when current_frame_index is even.                               *)
(***************************************************************************)
PickBit(pixel, current_frame_index) ==
    IF current_frame_index % 2 = 0 THEN 1 - (pixel % 2) ELSE pixel % 2

pick_and_flip(data, low, high, current_frame_index) ==
    LET InRange(p) == low <= p /\ p <= high
        kept == SelectSeq([i \in 1..data.len |-> Pixel(data, i - 1)], InRange)
    IN bits_to_bytes([j \in 1..Len(kept) |-> PickBit(kept[j], current_frame_index)])

(***************************************************************************)
(* whiten: von Neumann whitening.  The loop state is out, current_byte,    *)
(* bit_count; WhitenPair is one turn of the inner loop (i = 0, 2, 4, 6),   *)
(* WhitenByte one turn of the outer loop, WhitenFold the outer loop over   *)
(* entropy[lo..hi].                                                        *)
(***************************************************************************)
WhitenStart == [out |-> <<>>, current_byte |-> 0, bit_count |-> 0]

WhitenFlush(st) ==
    IF st.bit_count = 8
    THEN [out |-> Append(st.out, st.current_byte), current_byte |-> 0, bit_count |-> 0]
    ELSE st

\* mutant: the two unequal pairs exchanged ((0,1) appends 1, (1,0) appends 0)
WhitenPair_exchanged(st, byte, i) ==
    LET bit1 == BitOf(byte, 7 - i)
        bit2 == BitOf(byte, 6 - i)
    IN WhitenFlush(
         CASE bit1 = 0 /\ bit2 = 1 ->
                [st EXCEPT !.current_byte = ((st.current_byte * 2) % 256) + 1,
                           !.bit_count = st.bit_count + 1]
           [] bit1 = 1 /\ bit2 = 0 ->
                [st EXCEPT !.current_byte = (st.current_byte * 2) % 256,
                           !.bit_count = st.bit_count + 1]
           [] OTHER -> st)

WhitenPair(st, byte, i) ==
    LET bit1 == BitOf(byte, 7 - i)
        bit2 == BitOf(byte, 6 - i)
    IN WhitenFlush(
         CASE bit1 = 0 /\ bit2 = 1 ->
                [st EXCEPT !.current_byte = (st.current_byte * 2) % 256,
                           !.bit_count = st.bit_count + 1]
           [] bit1 = 1 /\ bit2 = 0 ->
                [st EXCEPT !.current_byte = ((st.current_byte * 2) % 256) + 1,
                           !.bit_count = st.bit_count + 1]
           [] OTHER -> st)

WhitenByte(st, byte) ==
    WhitenPair(WhitenPair(WhitenPair(WhitenPair(st, byte, 0), byte, 2), byte, 4), byte, 6)

RECURSIVE WhitenFold(_, _, _, _)
WhitenFold(s, lo, hi, st) ==
    IF lo > hi THEN st
    ELSE IF lo = hi THEN WhitenByte(st, s[lo])
    ELSE LET mid == (lo + hi) \div 2
             left == WhitenFold(s, lo, mid, st)
         IN \* bit_count is below 8 after every WhitenFlush; the test makes the
            \* left half be evaluated before the right half starts
            IF left.bit_count < 8 THEN WhitenFold(s, mid + 1, hi, left) ELSE left

\* mutant: an incomplete last byte is pushed too, padded with zero bits
whiten_padded(s) ==
    LET st == WhitenFold(s, 1, Len(s), WhitenStart)
    IN IF st.bit_count = 0 THEN st.out
       ELSE Append(st.out, (st.current_byte * Pow2(8 - st.bit_count)) % 256)

whiten(s) == WhitenFold(s, 1, Len(s), WhitenStart).out

(***************************************************************************)
(* shannon: -sum (count/n) * log2(count/n) over the byte values present.   *)
(* The f64 result is modelled in fixed point, in units of 1/1024 bit:      *)
(* Log2Fix(c) is log2(c) * 1024 computed by repeated squaring of the       *)
(* mantissa (14 fractional bits), and the score is                         *)
(* Log2Fix(n) - (sum count * Log2Fix(count)) / n, which is the same sum.   *)
(* The score of an empty buffer is 0 (lib.rs: the fold over an empty map;  *)
(* core.rs: the early return).                                             *)
(***************************************************************************)
LogFracBits == 10
Mantissa == 16384       \* 2^14: 1.0 in the mantissa's fixed point

RECURSIVE IntLog2(_)
IntLog2(c) == IF c < 2 THEN 0 ELSE 1 + IntLog2(c \div 2)

RECURSIVE Pow2N(_)
Pow2N(k) == IF k = 0 THEN 1 ELSE 2 * Pow2N(k - 1)

RECURSIVE LogFrac(_, _)
LogFrac(y, k) ==
    IF k = 0 THEN 0
    ELSE LET sq == (y * y) \div Mantissa
         IN IF sq >= 2 * Mantissa
            THEN Pow2N(k - 1) + LogFrac(sq \div 2, k - 1)
            ELSE LogFrac(sq, k - 1)

Log2Fix(c) ==
    LET e == IntLog2(c)
    IN e * Pow2N(LogFracBits) + LogFrac((c * Mantissa) \div Pow2N(e), LogFracBits)

Count(data, v) == Cardinality({i \in 1..Len(data) : data[i] = v})

\* the sum of count * log2(count) over the byte values lo..hi present in data
RECURSIVE WeightedLogs(_, _, _, _)
WeightedLogs(data, present, lo, hi) ==
    IF lo = hi
    THEN IF lo \in present
         THEN LET c == Count(data, lo) IN c * Log2Fix(c)
         ELSE 0
    ELSE LET mid == (lo + hi) \div 2
         IN WeightedLogs(data, present, lo, mid)
            + WeightedLogs(data, present, mid + 1, hi)

shannon(data) ==
    IF Len(data) = 0 THEN 0
    ELSE Log2Fix(Len(data))
         - WeightedLogs(data, {data[i] : i \in 1..Len(data)}, 0, 255) \div Len(data)

(***************************************************************************)
(* is_covered: fewer distinct pixel values than threshold.  Values is the  *)
(* set of the pixel values of a buffer, computed from its rule.            *)
(***************************************************************************)
Values(buf) ==
    CASE buf.kind = "periodic" ->
            {buf.pat[k] : k \in 1..Min(buf.len, Len(buf.pat))}
      [] buf.kind = "gradient" -> {i % 256 : i \in 0..(Min(buf.len, 256) - 1)}
      [] buf.kind = "grid" ->
            \* pixel 0 is 128; the first 129 is at the 16th sampled position
            (IF buf.len > 0 THEN {128} ELSE {})
            \cup (IF buf.len > Border * buf.gw + Border + 15 * GridStride
                  THEN {129} ELSE {})
      [] OTHER -> {Pixel(buf, i) : i \in 0..(Min(buf.len, 32) - 1)}

is_covered(grayscale, threshold) == Cardinality(Values(grayscale)) < threshold

(***************************************************************************)
(* The extern "C" wrappers of src/src/lib.rs.  A pointer argument is null  *)
(* or points to a caller's buffer mem (mem.len bytes are allocated); the   *)
(* length argument may differ from mem.len.  The wrappers test nothing:    *)
(* slice::from_raw_parts(ptr, len) on a null pointer, or with len beyond   *)
(* the allocation, is undefined behaviour.  Its outcomes are modelled as   *)
(* a choice: with debug assertions the precondition check of               *)
(* from_raw_parts aborts on a null pointer; otherwise a null pointer with  *)
(* len = 0 gives an empty slice without touching memory, and a read of     *)
(* memory that is not the caller's either faults (crashed) or continues    *)
(* on whatever bytes are there.  A panic inside an extern "C" function     *)
(* aborts the process.                                                     *)
(***************************************************************************)
Bytes(buf) == [i \in 1..buf.len |-> Pixel(buf, i - 1)]

NullPtr == [null |-> TRUE, mem |-> Periodic(0, <<0>>)]
PtrTo(m) == [null |-> FALSE, mem |-> m]

Garbage == {0, 85}

SliceOutcomes(b, p, n) ==
    IF p.null
    THEN (IF b = "debug" THEN {[kind |-> "aborted", data |-> p.mem, bad |-> FALSE]}
                         ELSE {})
         \cup (IF n = 0
               THEN {[kind |-> "slice", data |-> Periodic(0, <<0>>), bad |-> FALSE]}
               ELSE {[kind |-> "crashed", data |-> p.mem, bad |-> TRUE]}
                    \cup {[kind |-> "slice", data |-> Periodic(n, <<g>>), bad |-> TRUE] :
                             g \in Garbage})
    ELSE IF n <= p.mem.len
    THEN {[kind |-> "slice", data |-> [p.mem EXCEPT !.len = n], bad |-> FALSE]}
    ELSE {[kind |-> "crashed", data |-> p.mem, bad |-> TRUE],
          [kind |-> "slice", data |-> [p.mem EXCEPT !.len = n], bad |-> TRUE]}

Untouched == -1     \* *result_len still holds what the caller put there

FfiEndedWith(status, bad_read, v) ==
    [status |-> status, result_len |-> Untouched, written |-> <<>>, value |-> v,
     bad_read |-> bad_read, bad_write |-> FALSE]

FfiEnded(status, bad_read) ==
    [status |-> status, result_len |-> Untouched, written |-> <<>>, value |-> 0,
     bad_read |-> bad_read, bad_write |-> FALSE]

\* mutant: *result_len is given the capacity of the caller's buffer
WriteOutcomes_capacity(b, outp, bytes, bad_read) ==
    LET done == [status |-> "returned", result_len |-> outp.cap, written |-> bytes,
                 value |-> 0, bad_read |-> bad_read, bad_write |-> FALSE]
    IN IF outp.null
       THEN (IF b = "debug" THEN {FfiEnded("aborted", bad_read)} ELSE {})
            \cup (IF Len(bytes) = 0 THEN {[done EXCEPT !.written = <<>>]}
                  ELSE {[FfiEnded("crashed", bad_read) EXCEPT !.bad_write = TRUE]})
       ELSE IF Len(bytes) <= outp.cap THEN {done}
       ELSE {[FfiEnded("crashed", bad_read) EXCEPT !.bad_write = TRUE],
             [done EXCEPT !.bad_write = TRUE]}

\* from_raw_parts_mut(result_ptr, result.len()); copy_from_slice; *result_len = ..
WriteOutcomes(b, outp, bytes, bad_read) ==
    LET done == [status |-> "returned", result_len |-> Len(bytes), written |-> bytes,
                 value |-> 0, bad_read |-> bad_read, bad_write |-> FALSE]
    IN IF outp.null
       THEN (IF b = "debug" THEN {FfiEnded("aborted", bad_read)} ELSE {})
            \cup (IF Len(bytes) = 0 THEN {[done EXCEPT !.written = <<>>]}
                  ELSE {[FfiEnded("crashed", bad_read) EXCEPT !.bad_write = TRUE]})
       ELSE IF Len(bytes) <= outp.cap THEN {done}
       ELSE {[FfiEnded("crashed", bad_read) EXCEPT !.bad_write = TRUE],
             [done EXCEPT !.bad_write = TRUE]}

FfiBufferOutcomes(b, kind, bad_read, inner, outp) ==
    IF kind # "slice" THEN {FfiEnded(kind, bad_read)}
    ELSE IF inner.kind = "panic" THEN {FfiEnded("aborted", bad_read)}
    ELSE IF inner.kind = "hang" THEN {FfiEnded("hang", bad_read)}
    ELSE WriteOutcomes(b, outp, inner.bytes, bad_read)

\* none stands for "no value was returned"
FfiValueOutcomes(kind, bad_read, v, none) ==
    IF kind # "slice" THEN {FfiEndedWith(kind, bad_read, none)}
    ELSE {FfiEndedWith("returned", bad_read, v)}

ffi_chop_and_tack(b, c) ==
    UNION { UNION { FfiBufferOutcomes(b,
                        IF s1.kind # "slice" THEN s1.kind ELSE s2.kind,
                        s1.bad \/ s2.bad,
                        lib_chop_and_tack(b, s1.data, s2.data, c.width, c.stride),
                        c.result_ptr)
                    : s2 \in IF s1.kind = "slice"
                             THEN SliceOutcomes(b, c.previous_ptr, c.previous_len)
                             ELSE {s1} }
            : s1 \in SliceOutcomes(b, c.current_ptr, c.current_len) }

ffi_pick_and_flip(b, c) ==
    UNION { FfiBufferOutcomes(b, s.kind, s.bad,
                Ok(pick_and_flip(s.data, c.low, c.high, c.current_frame_index)),
                c.result_ptr)
            : s \in SliceOutcomes(b, c.data_ptr, c.data_len) }

ffi_whiten(b, c) ==
    UNION { FfiBufferOutcomes(b, s.kind, s.bad, Ok(whiten(Bytes(s.data))), c.result_ptr)
            : s \in SliceOutcomes(b, c.entropy_ptr, c.entropy_len) }

ffi_shannon(b, c) ==
    UNION { FfiValueOutcomes(s.kind, s.bad, shannon(Bytes(s.data)), 0)
            : s \in SliceOutcomes(b, c.data_ptr, c.data_len) }

ffi_is_covered(b, c) ==
    UNION { FfiValueOutcomes(s.kind, s.bad, is_covered(s.data, c.threshold), FALSE)
            : s \in SliceOutcomes(b, c.grayscale_ptr, c.grayscale_len) }

(***************************************************************************)
(* Inputs of the calls of primitives.                                      *)
(***************************************************************************)
PixVals == {0, 1, 255}
Patterns == [1..PatLen -> PixVals]
FnWidths == {0, 150, 200, 201, 202}
FnLens == {0, 40401, 41808, 45000}
FnStrides == {0, 1, 2}

NoCall == [op |-> "none"]
Pending == [kind |-> "pending", bytes |-> <<>>]

IdleLoop ==
    /\ pc = "idle" /\ quick = FALSE /\ length = 0 /\ width = 0
    /\ total_entropy = <<>> /\ frame_count = 0 /\ entropy = <<>>
    /\ data1 = Periodic(0, <<0>>) /\ requests = 0 /\ hist = <<>>

LoopUnchanged == UNCHANGED <<build, pc, quick, length, width, total_entropy,
                             frame_count, entropy, data1, requests, hist>>

\* the arguments of one call of chop_and_tack
\* (the previous frame is all 1: with current pixels 0, 1 and 255 every
\* sampled index is lesser, equal or greater at will)
ChopCalls ==
    { [op |-> o, current |-> Periodic(n, cp), previous |-> Periodic(m, pp),
       width |-> w, stride |-> s, out |-> Pending] :
         o \in {"chop_and_tack", "lib_chop_and_tack"},
         cp \in Patterns, pp \in [1..PatLen -> {1}],
         n \in FnLens, m \in FnLens, w \in FnWidths, s \in FnStrides }

\* the arguments of one call of pick_and_flip
PickLens == {0, 7, 8, 9, 16}
PickFrames == {0, 1, 30, 31}
PickCalls ==
    { [op |-> "pick_and_flip", data |-> Periodic(n, p), low |-> lo, high |-> hi,
       current_frame_index |-> f, out |-> Pending] :
         n \in PickLens, p \in Patterns, lo \in PixVals, hi \in PixVals,
         f \in PickFrames }

\* the arguments of one call of whiten; seq counts the calls made one after
\* the other, before is the argument of the call before this one
WhitenBytes == {0, 255, 85, 170, 1, 128, 27, 21, 154}
RECURSIVE SeqsUpTo(_, _)
SeqsUpTo(S, n) ==
    IF n = 0 THEN {<<>>}
    ELSE LET shorter == SeqsUpTo(S, n - 1)
         IN shorter \cup {Append(s, x) : s \in {q \in shorter : Len(q) = n - 1}, x \in S}
WhitenInputs == SeqsUpTo(WhitenBytes, MaxWhitenLen)
WhitenAgainInputs == {<<85>>, <<170, 85>>, <<0>>}
WhitenCalls ==
    { [op |-> "whiten", entropy |-> s, seq |-> 1, before |-> <<>>, out |-> Pending] :
         s \in WhitenInputs }

\* the arguments of one call of an extern "C" wrapper
FfiInPtrs(mems) == {NullPtr} \cup {PtrTo(m) : m \in mems}
FfiOutPtrs == {[null |-> TRUE, cap |-> 0], [null |-> FALSE, cap |-> 0],
               [null |-> FALSE, cap |-> 64]}
FfiFrames == {Periodic(41808, <<1, 0>>), Periodic(41808, <<0, 0>>)}
FfiSmall == {Periodic(16, <<0, 1>>)}

FfiCalls ==
    { [op |-> "ffi_chop_and_tack", current_ptr |-> p, current_len |-> n,
       previous_ptr |-> q, previous_len |-> n, width |-> w, stride |-> 1,
       result_ptr |-> r, out |-> Pending] :
         p \in FfiInPtrs(FfiFrames), q \in FfiInPtrs(FfiFrames),
         n \in {0, 41808, 45000}, w \in {0, 201}, r \in FfiOutPtrs }
    \cup
    { [op |-> "ffi_pick_and_flip", data_ptr |-> p, data_len |-> n, low |-> 0,
       high |-> 255, current_frame_index |-> f, result_ptr |-> r, out |-> Pending] :
         p \in FfiInPtrs(FfiSmall), n \in {0, 16, 17}, f \in {0, 1},
         r \in FfiOutPtrs }
    \cup
    { [op |-> "ffi_whiten", entropy_ptr |-> p, entropy_len |-> n, result_ptr |-> r,
       out |-> Pending] :
         p \in FfiInPtrs(FfiSmall), n \in {0, 16, 17}, r \in FfiOutPtrs }
    \cup
    { [op |-> "ffi_shannon", data_ptr |-> p, data_len |-> n, out |-> Pending] :
         p \in FfiInPtrs(FfiSmall), n \in {0, 16, 17} }
    \cup
    { [op |-> "ffi_is_covered", grayscale_ptr |-> p, grayscale_len |-> n,
       threshold |-> th, out |-> Pending] :
         p \in FfiInPtrs(FfiSmall), n \in {0, 16, 17}, th \in {0, 2, 50} }

InitFn ==
    /\ build \in Builds
    /\ call \in {c \in ChopCalls : c.previous.len \in {c.current.len, 40401}}
                \cup PickCalls \cup WhitenCalls \cup FfiCalls
    /\ IdleLoop

CallChop ==
    /\ call.op = "chop_and_tack" /\ call.out = Pending
    /\ call' = [call EXCEPT !.out = chop_and_tack(build, call.current,
                                        call.previous, call.width, call.stride)]
    /\ LoopUnchanged

CallLibChop ==
    /\ call.op = "lib_chop_and_tack" /\ call.out = Pending
    /\ call' = [call EXCEPT !.out = lib_chop_and_tack(build, call.current,
                                        call.previous, call.width, call.stride)]
    /\ LoopUnchanged

CallPick ==
    /\ call.op = "pick_and_flip" /\ call.out = Pending
    /\ call' = [call EXCEPT !.out = Ok(pick_and_flip(call.data, call.low,
                                        call.high, call.current_frame_index))]
    /\ LoopUnchanged

CallWhiten ==
    /\ call.op = "whiten" /\ call.out = Pending
    /\ call' = [call EXCEPT !.out = Ok(whiten(call.entropy))]
    /\ LoopUnchanged

\* a second call of whiten, after the first has returned
WhitenAgain ==
    /\ call.op = "whiten" /\ call.out # Pending /\ call.seq = 1
    /\ \E s \in WhitenAgainInputs :
         call' = [op |-> "whiten", entropy |-> s, seq |-> 2,
                  before |-> call.entropy, out |-> Pending]
    /\ LoopUnchanged

FfiChop ==
    /\ call.op = "ffi_chop_and_tack" /\ call.out = Pending
    /\ \E r \in ffi_chop_and_tack(build, call) : call' = [call EXCEPT !.out = r]
    /\ LoopUnchanged

FfiPick ==
    /\ call.op = "ffi_pick_and_flip" /\ call.out = Pending
    /\ \E r \in ffi_pick_and_flip(build, call) : call' = [call EXCEPT !.out = r]
    /\ LoopUnchanged

FfiWhiten ==
    /\ call.op = "ffi_whiten" /\ call.out = Pending
    /\ \E r \in ffi_whiten(build, call) : call' = [call EXCEPT !.out = r]
    /\ LoopUnchanged

FfiShannon ==
    /\ call.op = "ffi_shannon" /\ call.out = Pending
    /\ \E r \in ffi_shannon(build, call) : call' = [call EXCEPT !.out = r]
    /\ LoopUnchanged

FfiIsCovered ==
    /\ call.op = "ffi_is_covered" /\ call.out = Pending
    /\ \E r \in ffi_is_covered(build, call) : call' = [call EXCEPT !.out = r]
    /\ LoopUnchanged

NextFn ==
    \/ CallChop \/ CallLibChop \/ CallPick \/ CallWhiten \/ WhitenAgain
    \/ FfiChop \/ FfiPick \/ FfiWhiten \/ FfiShannon \/ FfiIsCovered

SpecFn == InitFn /\ [][NextFn]_vars

Returned(o) == call.op = o /\ call.out # Pending

(***************************************************************************)
(* The accumulation loop of main (src/src/bin/main.rs).                    *)
(*                                                                         *)
(* pc = "loop":   at the test of while total_entropy.len() < length        *)
(* pc = "frame1": stream.next() has returned the first frame of the round  *)
(* pc = "done":   the loop has ended and the pool is truncated             *)
(* pc = "exit":   main has returned                                        *)
(* pc = "panicked": an expect or a panic ended the process                 *)
(* pc = "hung":   chop_and_tack does not return                            *)
(*                                                                         *)
(* main calls ocelli.pick_and_flip(&grayscale_data1, frame_count) with two *)
(* arguments where the library's function takes low and high as well: the  *)
(* range of that call is a parameter of the run here (range).              *)
(***************************************************************************)
FrameRows == 236
Grid == [len |-> 1920 * FrameRows, kind |-> "grid", pat |-> <<>>, gw |-> 1920]
Flat == Periodic(1920 * FrameRows, <<128>>)
FlatLong == Periodic(1920 * (FrameRows + 64), <<128>>)
Gradient == [len |-> 1920 * FrameRows, kind |-> "gradient", pat |-> <<>>, gw |-> 0]
Small == Periodic(640 * 480, <<128>>)
Tiny == Periodic(320 * 240, <<128>>)
Lsb == [len |-> 4096, kind |-> "lsb", pat |-> <<>>, gw |-> 0]

Short == Periodic(64, <<128, 129>>)
NoPixels == Periodic(0, <<128>>)

\* the frames the camera may deliver
Frames(q) == IF q THEN {Lsb, Short, NoPixels}
                  ELSE {Grid, Flat, FlatLong, Gradient, Small, Tiny}

Lengths == {0, 1, 300}

\* format.width is 1920, or 1280 after the fallback
Configs ==
    { [build |-> b, quick |-> q, width |-> 1920, length |-> n, range |-> <<0, 255>>] :
         b \in Builds, q \in BOOLEAN, n \in Lengths }
    \cup
    { [build |-> "release", quick |-> FALSE, width |-> 1280, length |-> 1,
       range |-> <<0, 255>>],
      [build |-> "release", quick |-> TRUE, width |-> 1280, length |-> 1,
       range |-> <<129, 128>>] }

NoHistory ==
    [accepted |-> <<>>,         \* the accepted chunks, one after the other
     range |-> <<0, 255>>,      \* low, high of the quick mode
     read_failed |-> FALSE,     \* a stream.next() has failed
     requests_then |-> 0,       \* requests when it failed
     geometry |-> "none",       \* "bad": the last chop_and_tack had bad geometry
     pool_then |-> <<>>,        \* the pool before that round
     emitted |-> "nothing"]     \* what main wrote at the end

Init ==
    /\ call = NoCall
    /\ \E c \in Configs :
         /\ build = c.build
         /\ quick = c.quick /\ width = c.width /\ length = c.length
         /\ hist = [NoHistory EXCEPT !.range = c.range]
    /\ pc = "loop"
    /\ total_entropy = <<>>
    /\ frame_count = 0
    /\ entropy = <<>>
    /\ data1 = Periodic(0, <<0>>)
    /\ requests = 0

Config == UNCHANGED <<build, call, quick, length, width>>

\* shannon_entropy >= shannon_threshold
Accepts(chunk) == 10 * shannon(chunk) >= shannon_threshold * Pow2N(LogFracBits)

\* mutant: the chunk is appended whatever its score
Gate_unchecked(pool, chunk) == pool \o chunk

\* if shannon_entropy >= shannon_threshold { total_entropy.extend(entropy) }
Gate(pool, chunk) == IF Accepts(chunk) THEN pool \o chunk ELSE pool

\* mutant: no truncation
Truncate_none(pool, n) == pool

\* total_entropy.truncate(length)
Truncate(pool, n) == IF Len(pool) > n THEN SubSeq(pool, 1, n) ELSE pool

\* the end of a round: the quality gate on the round's chunk
EndRound ==
    /\ total_entropy' = Gate(total_entropy, entropy')
    /\ hist' = [hist EXCEPT !.accepted = IF total_entropy' = total_entropy
                                         THEN @ ELSE @ \o entropy',
                            !.geometry = "none"]
    /\ pc' = "loop"

\* while total_entropy.len() < length: the loop ends
ExitLoop ==
    /\ pc = "loop" /\ Len(total_entropy) >= length
    /\ total_entropy' = Truncate(total_entropy, length)
    /\ pc' = "done"
    /\ UNCHANGED <<frame_count, entropy, data1, requests, hist>>
    /\ Config

\* stream.next() gives the first frame of a round
CaptureFirst ==
    /\ pc = "loop" /\ Len(total_entropy) < length /\ requests < MaxRequests
    /\ \E f \in Frames(quick) : data1' = f
    /\ requests' = requests + 1
    /\ pc' = "frame1"
    /\ entropy' = <<>>          \* the chunk is a local of the loop body
    /\ hist' = [hist EXCEPT !.geometry = "none", !.pool_then = <<>>]
    /\ UNCHANGED <<total_entropy, frame_count>>
    /\ Config

\* mutant: a failed read is tried again
CaptureFirstFails_retry ==
    /\ pc = "loop" /\ Len(total_entropy) < length /\ requests < MaxRequests
    /\ requests' = requests + 1
    /\ hist' = [hist EXCEPT !.read_failed = TRUE, !.requests_then = requests']
    /\ pc' = "loop"
    /\ UNCHANGED <<total_entropy, frame_count, entropy, data1>>
    /\ Config

\* stream.next().expect("Failed to capture frame") on an error
CaptureFirstFails ==
    /\ pc = "loop" /\ Len(total_entropy) < length /\ requests < MaxRequests
    /\ requests' = requests + 1
    /\ hist' = [hist EXCEPT !.read_failed = TRUE, !.requests_then = requests']
    /\ pc' = "panicked"
    /\ UNCHANGED <<total_entropy, frame_count, entropy, data1>>
    /\ Config

\* if frame_count <= 30 { frame_count += 1 }
SkipFrame ==
    /\ pc = "frame1" /\ frame_count <= Warmup
    /\ frame_count' = frame_count + 1
    /\ pc' = "loop"
    /\ UNCHANGED <<total_entropy, entropy, data1, requests, hist>>
    /\ Config

\* mutant: the frame counter goes on counting after the warm-up
QuickRound_counting ==
    /\ pc = "frame1" /\ frame_count > Warmup /\ quick
    /\ entropy' = whiten(pick_and_flip(data1, hist.range[1], hist.range[2],
                                       frame_count))
    /\ EndRound
    /\ frame_count' = frame_count + 1
    /\ UNCHANGED <<data1, requests>>
    /\ Config

\* quick: entropy = whiten(pick_and_flip(grayscale_data1, frame_count))
QuickRound ==
    /\ pc = "frame1" /\ frame_count > Warmup /\ quick
    /\ entropy' = whiten(pick_and_flip(data1, hist.range[1], hist.range[2],
                                       frame_count))
    /\ EndRound
    /\ UNCHANGED <<frame_count, data1, requests>>
    /\ Config

\* mutant: the rejection leaves frame_count as it is
NotCovered_keeps ==
    /\ pc = "frame1" /\ frame_count > Warmup /\ ~quick
    /\ ~is_covered(data1, CoverThreshold)
    /\ entropy' = <<0>>
    /\ EndRound
    /\ UNCHANGED <<frame_count, data1, requests>>
    /\ Config

\* not quick, is_covered false: "Camera is not covered", frame_count = 0;
\* entropy keeps its placeholder [0]
NotCovered ==
    /\ pc = "frame1" /\ frame_count > Warmup /\ ~quick
    /\ ~is_covered(data1, CoverThreshold)
    /\ frame_count' = 0
    /\ entropy' = <<0>>
    /\ EndRound
    /\ UNCHANGED <<data1, requests>>
    /\ Config

GeometryBad(current, previous, w) ==
    \/ w <= MinSide
    \/ current.len \div w <= MinSide
    \/ current.len # previous.len

\* not quick, is_covered true: the second frame is read and chop_and_tack
\* (lib.rs) is called on the two
CoveredRound ==
    /\ pc = "frame1" /\ frame_count > Warmup /\ ~quick
    /\ is_covered(data1, CoverThreshold)
    /\ requests < MaxRequests
    /\ requests' = requests + 1
    /\ \E data2 \in Frames(quick) :
         LET r == lib_chop_and_tack(build, data1, data2, width, GridStride)
             geo == IF GeometryBad(data1, data2, width) THEN "bad" ELSE "ok"
         IN IF r.kind = "ok"
            THEN /\ entropy' = r.bytes
                 /\ total_entropy' = Gate(total_entropy, entropy')
                 /\ hist' = [hist EXCEPT
                               !.accepted = IF total_entropy' = total_entropy
                                            THEN @ ELSE @ \o entropy',
                               !.geometry = geo, !.pool_then = total_entropy]
                 /\ pc' = "loop"
            ELSE /\ pc' = IF r.kind = "hang" THEN "hung" ELSE "panicked"
                 /\ hist' = [hist EXCEPT !.geometry = geo,
                                         !.pool_then = total_entropy]
                 /\ UNCHANGED <<total_entropy, entropy>>
    /\ UNCHANGED <<frame_count, data1>>
    /\ Config

\* stream.next().expect("Failed to capture second frame") on an error
CaptureSecondFails ==
    /\ pc = "frame1" /\ frame_count > Warmup /\ ~quick
    /\ is_covered(data1, CoverThreshold)
    /\ requests < MaxRequests
    /\ requests' = requests + 1
    /\ hist' = [hist EXCEPT !.read_failed = TRUE, !.requests_then = requests']
    /\ pc' = "panicked"
    /\ UNCHANGED <<total_entropy, frame_count, entropy, data1>>
    /\ Config

\* the prompt: "file" saves the pool, "print" prints it, anything else neither
Output ==
    /\ pc = "done"
    /\ \E answer \in {"file", "print", "other"} :
         hist' = [hist EXCEPT !.emitted = IF answer = "other" THEN "nothing" ELSE answer]
    /\ pc' = "exit"
    /\ UNCHANGED <<total_entropy, frame_count, entropy, data1, requests>>
    /\ Config

Next ==
    \/ ExitLoop \/ CaptureFirst \/ CaptureFirstFails \/ SkipFrame
    \/ QuickRound \/ NotCovered \/ CoveredRound \/ CaptureSecondFails
    \/ Output

Spec == Init /\ [][Next]_vars

(***************************************************************************)
(* Statements about the accumulation loop, checked under Spec.             *)
(***************************************************************************)
\* C6: when the loop has ended for the target length, the pool has exactly
\* length bytes and is the first length bytes of the accepted chunks in
\* the order of their acceptance (cut at the tail, never padded).
C6_FinalPoolIsPrefixOfAccepted ==
    pc \in {"done", "exit"} =>
        /\ Len(total_entropy) = length
        /\ Len(hist.accepted) >= length
        /\ total_entropy = SubSeq(hist.accepted, 1, length)

\* the loop has ended after two chunks, and the second was cut
C6_Witness ==
    /\ pc = "done" /\ length = 300
    /\ Len(hist.accepted) = 522 /\ Len(total_entropy) = 300
    /\ total_entropy[300] = hist.accepted[300]

\* C7: before the final truncation every step leaves the pool unchanged or
\* appends the whole chunk of the round that ends, and appends it only if
\* its score is at least the threshold; a chunk below the threshold (an
\* empty chunk, the placeholder [0]) is not appended; so the pool never
\* shrinks and is the concatenation of the accepted chunks.
C7_PoolGrowsByAcceptedChunks ==
    [][ pc' \notin {"done", "exit"} =>
          /\ \/ total_entropy' = total_entropy
             \/ /\ pc = "frame1" /\ pc' = "loop"
                /\ total_entropy' = total_entropy \o entropy'
                /\ Accepts(entropy')
          /\ (pc = "frame1" /\ pc' = "loop" /\ frame_count > Warmup
                /\ ~Accepts(entropy'))
             => total_entropy' = total_entropy
          /\ Len(total_entropy') >= Len(total_entropy)
          /\ total_entropy' = hist'.accepted ]_vars

\* a second chunk has just been appended after the first
C7_Witness ==
    /\ pc = "loop" /\ Len(entropy) > 0 /\ Accepts(entropy)
    /\ total_entropy = entropy \o entropy
    /\ hist.accepted = total_entropy

\* C9: a round in which chop_and_tack's geometry precondition fails (frames
\* too small for the width, or of different lengths) appends nothing and
\* the run goes on with the next round: it is not aborted.
C9_BadGeometryIsSkipped ==
    hist.geometry = "bad" =>
        /\ pc = "loop"
        /\ total_entropy = hist.pool_then

\* C10: after a failed frame read (of the first frame of a round, or of the
\* second frame for chop_and_tack) the run is aborted: no further frame is
\* requested and nothing is written out.
C10_ReadFailureAborts ==
    hist.read_failed =>
        /\ pc = "panicked"
        /\ requests = hist.requests_then
        /\ hist.emitted = "nothing"

\* the read of a second frame has failed with a chunk already in the pool
C10_Witness ==
    /\ hist.read_failed /\ pc = "panicked"
    /\ Len(total_entropy) > 0 /\ ~quick /\ frame_count > Warmup
    /\ data1 = Grid /\ requests = 35

(***************************************************************************)
(* Statements about the primitives, checked under SpecFn.                  *)
(***************************************************************************)
\* bits packed most significant bit first, 8 per byte, the rest dropped
PackMSB(bits) ==
    [k \in 1..(Len(bits) \div 8) |->
        bits[8*k - 7] * 128 + bits[8*k - 6] * 64 + bits[8*k - 5] * 32
        + bits[8*k - 4] * 16 + bits[8*k - 3] * 8 + bits[8*k - 2] * 4
        + bits[8*k - 1] * 2 + bits[8*k]]

GeometryValid(c) ==
    /\ c.width > 200
    /\ c.current.len \div c.width > 200
    /\ c.current.len = c.previous.len

\* the bits the comparison is documented to give at the indices idxs
ComparedBits(current, previous, idxs) ==
    LET Differ(i) == Pixel(current, i) # Pixel(previous, i)
        kept == SelectSeq(idxs, Differ)
    IN [j \in 1..Len(kept) |->
          IF Pixel(current, kept[j]) > Pixel(previous, kept[j]) THEN 1 ELSE 0]

\* C1: chop_and_tack on geometry-valid inputs (and a stride of at least 1)
\* returns exactly the bits 1 for current[idx] > previous[idx], 0 for
\* current[idx] < previous[idx], nothing for equal pixels, taken over the
\* sampled indices in order and packed most significant bit first.
C1_ChopEmitsComparedBits ==
    (/\ call.op \in {"chop_and_tack", "lib_chop_and_tack"}
     /\ call.out # Pending
     /\ GeometryValid(call)
     /\ call.stride >= 1)
    => call.out = Ok(PackMSB(ComparedBits(call.current, call.previous,
                        GridIndices(call.width, call.stride,
                                    call.current.len \div call.width - Border))))

\* C2: chop_and_tack (core.rs) called with a violated precondition (width
\* <= 200, height <= 200 or buffers of different lengths) returns no chunk
\* and does not panic, whatever the buffers and the stride.
C2_BadGeometryYieldsNone ==
    (/\ Returned("chop_and_tack")
     /\ \/ call.width <= 200
        \/ call.current.len \div call.width <= 200
        \/ call.current.len # call.previous.len)
    => call.out = None

\* C3: pick_and_flip returns an empty chunk whenever low >= high.
C3_BadRangeYieldsEmpty ==
    (Returned("pick_and_flip") /\ call.low >= call.high) => call.out.bytes = <<>>

All85(s) == \A k \in 1..Len(s) : s[k] = 85

\* C4 as stated: whiten of n bytes 0x55 returns floor(n/2) bytes 0xFF.
C4_All55YieldsOnes ==
    (Returned("whiten") /\ All85(call.entropy))
    => call.out = Ok([k \in 1..(Len(call.entropy) \div 2) |-> 255])

\* C4 as amended: whiten of n bytes 0x55 (the pair 01 repeated) returns
\* floor(n/2) bytes 0x00: every pair is consumed into one output bit, and
\* every output bit is 0.
C4_All55YieldsZeros ==
    (Returned("whiten") /\ All85(call.entropy))
    => call.out = Ok([k \in 1..(Len(call.entropy) \div 2) |-> 0])

C4_Witness ==
    /\ Returned("whiten") /\ All85(call.entropy) /\ Len(call.entropy) = 3
    /\ Len(call.out.bytes) = 1

\* the pairs of a buffer read as a bit stream, most significant bit first
BitPairs(s) ==
    [m \in 1..(4 * Len(s)) |->
        <<BitOf(s[(m - 1) \div 4 + 1], 7 - 2 * ((m - 1) % 4)),
          BitOf(s[(m - 1) \div 4 + 1], 6 - 2 * ((m - 1) % 4))>>]

Unequal(pair) == pair[1] # pair[2]

\* (0,1) gives 0 and (1,0) gives 1: the first bit of the pair
VonNeumannBits(s) ==
    LET kept == SelectSeq(BitPairs(s), Unequal)
    IN [j \in 1..Len(kept) |-> IF kept[j] = <<1, 0>> THEN 1 ELSE 0]

\* C5: whiten returns the von Neumann bits of its argument (pairs read most
\* significant bit first, four per byte, (0,1) -> 0, (1,0) -> 1, equal pairs
\* nothing), accumulated across the bytes of the argument and packed most
\* significant bit first into floor(k/8) bytes; the last k mod 8 bits are
\* dropped and do not show in a later call; an all-zero argument gives an
\* empty result.
C5_WhitenIsVonNeumann ==
    Returned("whiten") =>
        /\ call.out = Ok(PackMSB(VonNeumannBits(call.entropy)))
        /\ Len(call.out.bytes) = Len(VonNeumannBits(call.entropy)) \div 8
        /\ (\A k \in 1..Len(call.entropy) : call.entropy[k] = 0) => call.out.bytes = <<>>

\* a second call that returns a byte after a first call that left bits over
C5_Witness ==
    /\ Returned("whiten") /\ call.seq = 2
    /\ Len(VonNeumannBits(call.before)) % 8 = 5
    /\ call.entropy = <<170, 85>> /\ call.out.bytes = <<240>>

FfiBufferOps == {"ffi_chop_and_tack", "ffi_pick_and_flip", "ffi_whiten"}
FfiOps == FfiBufferOps \cup {"ffi_shannon", "ffi_is_covered"}

\* the input pointers of an FFI call, each with the length given for it
FfiInputs(c) ==
    CASE c.op = "ffi_chop_and_tack" ->
            {<<c.current_ptr, c.current_len>>, <<c.previous_ptr, c.previous_len>>}
      [] c.op = "ffi_pick_and_flip" -> {<<c.data_ptr, c.data_len>>}
      [] c.op = "ffi_whiten" -> {<<c.entropy_ptr, c.entropy_len>>}
      [] c.op = "ffi_shannon" -> {<<c.data_ptr, c.data_len>>}
      [] OTHER -> {<<c.grayscale_ptr, c.grayscale_len>>}

FfiInvalidArguments(c) ==
    \/ \E a \in FfiInputs(c) : a[1].null \/ a[2] > a[1].mem.len
    \/ c.op \in FfiBufferOps /\ c.result_ptr.null

\* C8: an FFI entry point called with a null input pointer, a null output
\* pointer or a length beyond the buffer returns normally, reports zero
\* bytes written (shannon: 0.0, is_covered: false) and makes no access
\* through the invalid pointer.
C8_FfiRejectsInvalidArguments ==
    (call.op \in FfiOps /\ call.out # Pending /\ FfiInvalidArguments(call))
    => /\ call.out.status = "returned"
       /\ ~call.out.bad_read /\ ~call.out.bad_write
       /\ call.op \in FfiBufferOps => call.out.result_len = 0
       /\ call.op = "ffi_shannon" => call.out.value = 0
       /\ call.op = "ffi_is_covered" => call.out.value = FALSE

\* the length given for the input buffer of a buffer-producing FFI call
FfiInputLen(c) ==
    CASE c.op = "ffi_chop_and_tack" -> c.current_len
      [] c.op = "ffi_pick_and_flip" -> c.data_len
      [] OTHER -> c.entropy_len

\* C11: chop_and_tack, pick_and_flip and whiten, when they produce a result,
\* produce no more bytes than the input buffer has; an FFI wrapper that
\* returns has written no more bytes than the input length it was given,
\* reports in result_len the number of bytes it wrote, and has stayed
\* inside an output buffer of at least the input length.
C11_OutputWithinInput ==
    /\ (call.op \in {"chop_and_tack", "lib_chop_and_tack"} /\ call.out.kind = "ok")
       => Len(call.out.bytes) <= call.current.len
    /\ Returned("pick_and_flip") => Len(call.out.bytes) <= call.data.len
    /\ Returned("whiten") => Len(call.out.bytes) <= Len(call.entropy)
    /\ (call.op \in FfiBufferOps /\ call.out # Pending /\ call.out.status = "returned")
       => /\ Len(call.out.written) <= FfiInputLen(call)
          /\ call.out.result_len = Len(call.out.written)
          /\ (~call.result_ptr.null /\ call.result_ptr.cap >= FfiInputLen(call))
             => ~call.out.bad_write

\* the whiten wrapper has returned after writing one byte for 16 read
C11_Witness ==
    /\ call.op = "ffi_whiten" /\ call.out # Pending
    /\ call.out.status = "returned" /\ ~call.out.bad_read
    /\ call.entropy_len = 16 /\ call.result_ptr.cap = 64
    /\ call.out.written = <<0>> /\ call.out.result_len = 1

(***************************************************************************)
(* Statements about the warm-up and the frame counter, checked under Spec. *)
(* requests is the number of the frame pulled last.                        *)
(***************************************************************************)
\* the frame just pulled is discarded by the warm-up test
Discards == pc = "frame1" /\ frame_count <= Warmup

\* the frame just pulled goes to the coverage check or to the extraction
Processes == pc = "frame1" /\ frame_count > Warmup

\* C12: the loop discards the first 30 frames it pulls and no more: each of
\* the frames 1..30 is discarded, and the 31st frame pulled is processed.
C12_WarmupDiscardsThirty ==
    pc = "frame1" =>
        /\ requests <= Warmup => Discards
        /\ requests = Warmup + 1 => Processes

\* the coverage check rejects the frame just pulled
Rejects == Processes /\ ~quick /\ ~is_covered(data1, CoverThreshold)

\* C13 as stated: a round rejected by the coverage check appends nothing
\* and leaves the frame counter unchanged, so that the warm-up test lets
\* the next frame pulled through to the coverage check.
C13_RejectionKeepsCounter ==
    [][ Rejects => /\ total_entropy' = total_entropy
                   /\ frame_count' = frame_count
                   /\ frame_count' > Warmup ]_vars

\* C13 as amended: a round rejected by the coverage check appends nothing
\* and sets the frame counter back to 0: the warm-up starts again, and the
\* next frame pulled is discarded as a warm-up frame (the counter goes to 1,
\* the pool stays as it is).
C13_RejectionRestartsWarmup ==
    [][ /\ Rejects => /\ total_entropy' = total_entropy
                      /\ frame_count' = 0
                      /\ pc' = "loop"
        /\ (pc = "frame1" /\ frame_count = 0 /\ requests > Warmup + 1)
           => /\ pc' = "loop"
              /\ frame_count' = 1
              /\ total_entropy' = total_entropy ]_vars

\* a chunk was accepted, the next round was rejected by the coverage check,
\* and the frame pulled after it has been discarded
C13_Witness ==
    /\ ~quick /\ pc = "loop" /\ frame_count = 1
    /\ requests = Warmup + 5 /\ Len(total_entropy) > 0

\* the least significant bits of the pixels of data in low..high, as they
\* are (not flipped), in the order of the pixels
UnflippedLsbs(data, low, high) ==
    LET InRange(p) == low <= p /\ p <= high
        kept == SelectSeq([i \in 1..data.len |-> Pixel(data, i - 1)], InRange)
    IN [j \in 1..Len(kept) |-> kept[j] % 2]

\* C14: the frame counter grows only in the warm-up (by one, for a frame
\* that is discarded), so every frame that is processed finds it at 31; in
\* quick mode the frame-parity index of every round is therefore 31, odd,
\* and the chunk of every round is made of the least significant bits as
\* they are, never flipped.
C14_CounterIs31AtExtraction ==
    [][ /\ frame_count' > frame_count
           => (Discards /\ frame_count' = frame_count + 1)
        /\ Processes => frame_count = Warmup + 1
        /\ (Processes /\ quick)
           => /\ frame_count % 2 = 1
              /\ entropy' = whiten(PackMSB(UnflippedLsbs(data1, hist.range[1],
                                                          hist.range[2]))) ]_vars

\* quick mode: the second round after the warm-up has ended, both rounds
\* gave a chunk that was accepted
C14_Witness ==
    /\ quick /\ pc = "loop" /\ frame_count = Warmup + 1
    /\ requests = Warmup + 3
    /\ Len(entropy) > 0 /\ total_entropy = entropy \o entropy

====
